---------------------------- MODULE Spec2Model ----------------------------
(***************************************************************************)
(* cppyythonizations/pickling/cereal.hpp: the two function templates       *)
(*   serialize<T>(const T&) -> std::string                                 *)
(*   deserialize<T>(const std::string&) -> T                               *)
(* and the objects they create: a std::stringstream, a cereal JSON archive *)
(* bound to it, and (in deserialize) a default-constructed T.              *)
(*                                                                         *)
(* The archives are cereal's JSONOutputArchive / JSONInputArchive over a   *)
(* rapidjson writer / document.  Their behaviour is modelled where the     *)
(* header calls them.  Texts are sequences of tokens; white space, which   *)
(* the writer emits and the reader skips, is left out.  Arrays, booleans   *)
(* and null, which no modelled type writes, are left out of the grammar.   *)
(* A type T describes its fields to the archive as name-value pairs of     *)
(* int, in declaration order.                                              *)
(***************************************************************************)
EXTENDS Integers, Sequences, FiniteSets, TLC

(***************************************************************************)
(* Texts: a std::string is a sequence of tokens <<kind, payload>>.         *)
(*   "p"  a structural character   { } : ,                                 *)
(*   "s"  a quoted string                                                  *)
(*   "n"  one character of a number: a digit or the minus sign             *)
(***************************************************************************)
LBrace == <<"p", "{">>
RBrace == <<"p", "}">>
Colon == <<"p", ":">>
Comma == <<"p", ",">>
Minus == <<"n", "-">>
Str(s) == <<"s", s>>

DigitChars == <<"0", "1", "2", "3", "4", "5", "6", "7", "8", "9">>
Digit(d) == <<"n", DigitChars[d + 1]>>
IsDigit(tok) == tok[1] = "n" /\ tok # Minus
DigitVal(tok) == CHOOSE d \in 0..9 : Digit(d) = tok

(***************************************************************************)
(* rapidjson Writer::WriteInt: a minus sign for a negative number, then    *)
(* the decimal digits of the magnitude, most significant first.            *)
(***************************************************************************)
RECURSIVE u32toa(_)
u32toa(u) == IF u < 10 THEN <<Digit(u)>>
             ELSE Append(u32toa(u \div 10), Digit(u % 10))

(* Fault: the sign is lost. *)
WriteIntUnsigned(i) == IF i < 0 THEN u32toa(-i) ELSE u32toa(i)

WriteInt(i) == IF i < 0 THEN <<Minus>> \o u32toa(-i) ELSE u32toa(i)

(***************************************************************************)
(* The rapidjson document: a tree of values.                               *)
(*   kind "int": i      kind "str": s      kind "obj": m, the members in   *)
(*   text order, each <<name, value>>      kind "null": a failed parse     *)
(***************************************************************************)
NullValue == [kind |-> "null", i |-> 0, s |-> "", m |-> <<>>]
IntValue(n) == [kind |-> "int", i |-> n, s |-> "", m |-> <<>>]
StringValue(str) == [kind |-> "str", i |-> 0, s |-> str, m |-> <<>>]
ObjectValue(members) == [kind |-> "obj", i |-> 0, s |-> "", m |-> members]

ParseFail == [ok |-> FALSE, v |-> NullValue, pos |-> 0]
ParseOk(v, pos) == [ok |-> TRUE, v |-> v, pos |-> pos]

(***************************************************************************)
(* rapidjson Reader::ParseNumber from position pos: an optional minus,     *)
(* then either a single 0 or a nonzero digit followed by digits.           *)
(***************************************************************************)
RECURSIVE ParseDigits(_, _, _)
ParseDigits(text, pos, acc) ==
    IF pos <= Len(text) /\ IsDigit(text[pos])
    THEN ParseDigits(text, pos + 1, 10 * acc + DigitVal(text[pos]))
    ELSE [n |-> acc, pos |-> pos]

ParseNumber(text, pos) ==
    LET neg == text[pos] = Minus
        first == IF neg THEN pos + 1 ELSE pos
    IN  IF first > Len(text) \/ ~IsDigit(text[first]) THEN ParseFail
        ELSE IF DigitVal(text[first]) = 0
             THEN ParseOk(IntValue(0), first + 1)
             ELSE LET r == ParseDigits(text, first, 0)
                  IN  ParseOk(IntValue(IF neg THEN -r.n ELSE r.n), r.pos)

(***************************************************************************)
(* rapidjson Reader::ParseValue / ParseObject, recursive descent.          *)
(***************************************************************************)
RECURSIVE ParseValue(_, _), ParseMembers(_, _, _)
ParseValue(text, pos) ==
    IF pos > Len(text) THEN ParseFail
    ELSE IF text[pos] = LBrace
         THEN IF pos + 1 <= Len(text) /\ text[pos + 1] = RBrace
              THEN ParseOk(ObjectValue(<<>>), pos + 2)
              ELSE ParseMembers(text, pos + 1, <<>>)
    ELSE IF text[pos][1] = "s" THEN ParseOk(StringValue(text[pos][2]), pos + 1)
    ELSE IF text[pos][1] = "n" THEN ParseNumber(text, pos)
    ELSE ParseFail

ParseMembers(text, pos, acc) ==
    IF pos + 1 > Len(text) \/ text[pos][1] # "s" \/ text[pos + 1] # Colon
    THEN ParseFail
    ELSE LET r == ParseValue(text, pos + 2)
             members == Append(acc, <<text[pos][2], r.v>>)
         IN  IF ~r.ok \/ r.pos > Len(text) THEN ParseFail
             ELSE IF text[r.pos] = Comma
                  THEN ParseMembers(text, r.pos + 1, members)
             ELSE IF text[r.pos] = RBrace
                  THEN ParseOk(ObjectValue(members), r.pos + 1)
             ELSE ParseFail

(***************************************************************************)
(* Document::ParseStream: one value and nothing after it; the document is  *)
(* left null when the text does not parse.                                 *)
(***************************************************************************)
ParseStream(text) ==
    LET r == ParseValue(text, 1)
    IN  IF r.ok /\ r.pos = Len(text) + 1 THEN r.v ELSE NullValue

(***************************************************************************)
(* The types T the templates are instantiated with.  Fields(T) is what T's *)
(* own serialize function visits: archive(make_nvp(name, member)) for each *)
(* int member in declaration order.  Guarded also holds a handle h that    *)
(* cannot be saved while it is open (h # 0): its save function throws when *)
(* it reaches h.  Point is another type with the member names of Pair.     *)
(* Owner has no int member; it holds one std::unique_ptr<Pair> member p,   *)
(* which its serialize function visits as archive(make_nvp("p", p)).       *)
(***************************************************************************)
Types == {"Single", "Pair", "Triple", "Guarded", "Point", "Owner"}

Fields(T) == CASE T = "Single" -> <<"a">>
               [] T = "Pair" -> <<"a", "b">>
               [] T = "Triple" -> <<"a", "b", "c">>
               [] T = "Guarded" -> <<"a", "h">>
               [] T = "Point" -> <<"a", "b">>
               [] T = "Owner" -> <<>>

Range(seq) == {seq[i] : i \in 1..Len(seq)}

MaxInt == 12

NoObject == [type |-> "none", f |-> <<>>]
Single(a) == [type |-> "Single", f |-> [a |-> a]]
Pair(a, b) == [type |-> "Pair", f |-> [a |-> a, b |-> b]]
Triple(a, b, c) == [type |-> "Triple", f |-> [a |-> a, b |-> b, c |-> c]]
Guarded(a, h) == [type |-> "Guarded", f |-> [a |-> a, h |-> h]]
Point(a, b) == [type |-> "Point", f |-> [a |-> a, b |-> b]]

(* std::unique_ptr<Pair>: the object it owns, or NoObject when it is null. *)
Null(ptr) == ptr.type = "none"
Owner(ptr) == [type |-> "Owner", f |-> [p |-> ptr]]

(* The objects callers hold and pass to serialize. *)
Values == {Single(7), Pair(3, 5), Pair(5, 3), Pair(-MaxInt, 0),
           Triple(3, 5, MaxInt * 10), Guarded(3, 0), Guarded(3, 1),
           Owner(Pair(5, 3)), Owner(NoObject)}

(* T's save function raises on this member of this object. *)
SaveThrows(v, name) == v.type = "Guarded" /\ name = "h" /\ v.f[name] # 0

(***************************************************************************)
(* archive(make_nvp("cereal", value)) as the sequence of calls it makes on *)
(* the archive: setNextName("cereal") and the prologue's startNode(); per  *)
(* member setNextName(name) and the save or load of an int; the epilogue's *)
(* finishNode().  TopLevelName is the name serialize gives on line 46,     *)
(* LoadName the one deserialize gives on line 58.                          *)
(***************************************************************************)
TopLevelName == "cereal"

(* Fault: deserialize reads under the name cereal gives an unnamed value. *)
LoadNameDefault == "value0"

LoadName == "cereal"
NoName == ""

Visit(T) ==
    <<[call |-> "startNode", name |-> TopLevelName]>>
    \o [i \in 1..Len(Fields(T)) |-> [call |-> "int", name |-> Fields(T)[i]]]
    \o <<[call |-> "finishNode", name |-> NoName]>>

(***************************************************************************)
(* <cereal/types/memory.hpp>: a std::unique_ptr member is a node holding a *)
(* node "ptr_wrapper", which holds the uint8_t "valid" and, when the       *)
(* pointer is not null, the node "data" with the members of the object it  *)
(* owns.  On loading, the calls after "valid" are decided by what "valid"  *)
(* made of the pointer.                                                    *)
(***************************************************************************)
VisitPointer(name, ptr) ==
    <<[call |-> "startNode", name |-> name],
      [call |-> "startNode", name |-> "ptr_wrapper"],
      [call |-> "valid", name |-> "valid"]>>
    \o (IF Null(ptr) THEN <<>>
        ELSE <<[call |-> "startNode", name |-> "data"]>>
             \o [i \in 1..Len(Fields(ptr.type)) |->
                    [call |-> "pointee", name |-> Fields(ptr.type)[i]]]
             \o <<[call |-> "finishNode", name |-> NoName]>>)
    \o <<[call |-> "finishNode", name |-> NoName],
         [call |-> "finishNode", name |-> NoName]>>

(* Fault: the text is tagged, the top-level name is the name of the type. *)
VisitObjectTagged(name, v) ==
    IF v.type = "Owner"
    THEN <<[call |-> "startNode", name |-> v.type]>> \o VisitPointer("p", v.f.p)
         \o <<[call |-> "finishNode", name |-> NoName]>>
    ELSE [Visit(v.type) EXCEPT ![1].name = v.type]

(* archive(make_nvp(name, v)) for the object v as it is now. *)
VisitObject(name, v) ==
    IF v.type = "Owner"
    THEN <<[call |-> "startNode", name |-> name]>> \o VisitPointer("p", v.f.p)
         \o <<[call |-> "finishNode", name |-> NoName]>>
    ELSE [Visit(v.type) EXCEPT ![1].name = name]

(***************************************************************************)
(* std::stringstream                                                       *)
(***************************************************************************)
NoStream == [alive |-> FALSE, str |-> <<>>]
stringstream(init) == [alive |-> TRUE, str |-> init]

(***************************************************************************)
(* The archive object, one record for both directions.                     *)
(*   out: itsNodeStack, itsNextName, and the rapidjson writer's level      *)
(*        stack (the number of keys and values written at each level)      *)
(*   in:  itsNextName and itsIteratorStack, an iterator being the members  *)
(*        of one object of the document and an index into them             *)
(***************************************************************************)
NoArchive == [alive |-> FALSE, dir |-> "none", stream |-> "none",
              itsNodeStack |-> <<>>, levels |-> <<>>, itsNextName |-> NoName,
              itsIteratorStack |-> <<>>]

Top(stack) == IF Len(stack) = 0 THEN "none" ELSE stack[Len(stack)]
Pop(stack) == IF Len(stack) = 0 THEN stack ELSE SubSeq(stack, 1, Len(stack) - 1)
SetTop(stack, x) == IF Len(stack) = 0 THEN stack
                    ELSE [stack EXCEPT ![Len(stack)] = x]

(***************************************************************************)
(* rapidjson Writer.  A writer state w is [ar, out]: the archive record    *)
(* and the tokens put to the stream so far in this step.                   *)
(***************************************************************************)
(* Fault: a comma where the colon after a key belongs. *)
WriterPrefixComma(w) ==
    LET n == Top(w.ar.levels)
    IN  IF Len(w.ar.levels) = 0 THEN w
        ELSE [ar |-> [w.ar EXCEPT !.levels = SetTop(@, n + 1)],
              out |-> w.out \o (IF n = 0 THEN <<>> ELSE <<Comma>>)]

WriterPrefix(w) ==
    LET n == Top(w.ar.levels)
    IN  IF Len(w.ar.levels) = 0 THEN w
        ELSE [ar |-> [w.ar EXCEPT !.levels = SetTop(@, n + 1)],
              out |-> w.out \o (IF n = 0 THEN <<>>
                                ELSE IF n % 2 = 0 THEN <<Comma>>
                                ELSE <<Colon>>)]

WriterStartObject(w) ==
    LET p == WriterPrefix(w)
    IN  [ar |-> [p.ar EXCEPT !.levels = Append(@, 0)],
         out |-> Append(p.out, LBrace)]

WriterEndObject(w) ==
    [ar |-> [w.ar EXCEPT !.levels = Pop(@)], out |-> Append(w.out, RBrace)]

WriterString(w, s) == LET p == WriterPrefix(w) IN [p EXCEPT !.out = Append(@, Str(s))]

WriterInt(w, i) == LET p == WriterPrefix(w) IN [p EXCEPT !.out = @ \o WriteInt(i)]

(***************************************************************************)
(* cereal::JSONOutputArchive                                               *)
(***************************************************************************)
JSONOutputArchive(stream) ==
    [NoArchive EXCEPT !.alive = TRUE, !.dir = "out", !.stream = stream,
                      !.itsNodeStack = <<"StartObject">>]

(* writeName(): open the enclosing object if it is still to be opened,     *)
(* then write the pending name as a key.                                   *)
writeName(w) ==
    LET opened == IF Top(w.ar.itsNodeStack) = "StartObject"
                  THEN WriterStartObject([w EXCEPT !.ar.itsNodeStack =
                                                 SetTop(@, "InObject")])
                  ELSE w
        named == WriterString(opened, opened.ar.itsNextName)
    IN  [named EXCEPT !.ar.itsNextName = NoName]

OutStartNode(w) ==
    LET n == writeName(w)
    IN  [n EXCEPT !.ar.itsNodeStack = Append(@, "StartObject")]

OutFinishNode(w) ==
    LET closed == IF Top(w.ar.itsNodeStack) = "StartObject"
                  THEN WriterEndObject(WriterStartObject(w))
                  ELSE IF Top(w.ar.itsNodeStack) = "InObject"
                       THEN WriterEndObject(w)
                       ELSE w
    IN  [closed EXCEPT !.ar.itsNodeStack = Pop(@)]

saveValue(w, i) == WriterInt(writeName(w), i)

(* ~JSONOutputArchive(): closes the object that is open at the top of the  *)
(* node stack, and nothing else.                                           *)
OutputArchiveDtor(w) ==
    IF Top(w.ar.itsNodeStack) = "InObject" THEN WriterEndObject(w) ELSE w

(* Fault: saving a member consumes it. *)
VisitedConsumed(v, c) ==
    IF c.call = "int" THEN [v EXCEPT !.f[c.name] = 0] ELSE v

(* The object after one call of the visit on an output archive: the       *)
(* archive receives the object as const T &, and reads its members.        *)
Visited(v, c) == v

(* One call of the visit on an output archive, for object v. *)
Save(w, v, c) ==
    LET named == [w EXCEPT !.ar.itsNextName = c.name]
    IN  CASE c.call = "startNode" -> OutStartNode(named)
          [] c.call = "int" -> saveValue(named, v.f[c.name])
          [] c.call = "valid" -> saveValue(named, IF Null(v.f.p) THEN 0 ELSE 1)
          [] c.call = "pointee" -> saveValue(named, v.f.p.f[c.name])
          [] c.call = "finishNode" -> OutFinishNode(w)

(***************************************************************************)
(* serialize(v) run to its end with nothing else running: what it returns, *)
(* or the exception that leaves it.                                        *)
(***************************************************************************)
RECURSIVE SaveFrom(_, _, _)
SaveFrom(w, v, i) ==
    LET calls == VisitObject(TopLevelName, v)
    IN  IF i > Len(calls) \/ ~w.ar.alive THEN [w |-> w, threw |-> FALSE]
        ELSE IF SaveThrows(v, calls[i].name) THEN [w |-> w, threw |-> TRUE]
        ELSE SaveFrom(Save(w, v, calls[i]), v, i + 1)

SerializeAlone(v) ==
    LET r == SaveFrom([ar |-> JSONOutputArchive("serialized"), out |-> <<>>], v, 1)
    IN  [threw |-> r.threw, str |-> OutputArchiveDtor(r.w).out]

(***************************************************************************)
(* cereal::JSONInputArchive.  A reader result is [ar, ok, err, i]: the     *)
(* archive record, whether the call returned or threw, what it threw, and  *)
(* the int it loaded.                                                      *)
(***************************************************************************)
Iterator(members) == [m |-> members, itsIndex |-> 1]

NoError == "none"
RapidJSONException == "RapidJSONException"
NVPNotFound(name) == "JSON Parsing failed - provided NVP (" \o name \o ") not found"

Returned(ar, i) == [ar |-> ar, ok |-> TRUE, err |-> NoError, i |-> i]
Threw(ar, err) == [ar |-> ar, ok |-> FALSE, err |-> err, i |-> 0]

(* The constructor parses the whole stream; MemberBegin() asserts that the *)
(* document is an object.                                                  *)
JSONInputArchive(stream, text) ==
    LET itsDocument == ParseStream(text)
    IN  IF itsDocument.kind = "obj"
        THEN Returned([NoArchive EXCEPT !.alive = TRUE, !.dir = "in",
                           !.stream = stream,
                           !.itsIteratorStack = <<Iterator(itsDocument.m)>>], 0)
        ELSE Threw(NoArchive, RapidJSONException)

(* Iterator::name(): the name at the index, or none past the end. *)
ItName(it) == IF it.itsIndex <= Len(it.m) THEN it.m[it.itsIndex][1] ELSE NoName

(* Iterator::value(); past the end there is nothing to return. *)
ItValue(it) == IF it.itsIndex <= Len(it.m) THEN it.m[it.itsIndex][2] ELSE NullValue

(* Iterator::search(name): the first member of that name, from the start. *)
ItSearch(it, name) ==
    LET hits == {j \in 1..Len(it.m) : it.m[j][1] = name}
    IN  IF hits = {} THEN 0 ELSE CHOOSE j \in hits : \A h \in hits : j <= h

(* Fault: names are not looked up; members are taken as they come. *)
searchPositional(ar) ==
    IF Len(ar.itsIteratorStack) = 0 THEN Threw(ar, RapidJSONException)
    ELSE Returned([ar EXCEPT !.itsNextName = NoName], 0)

(* search(): position the top iterator on the pending name, unless it is   *)
(* there already; throws when no member has that name.                     *)
search(ar) ==
    LET it == Top(ar.itsIteratorStack)
        cleared == [ar EXCEPT !.itsNextName = NoName]
    IN  IF Len(ar.itsIteratorStack) = 0 THEN Threw(ar, RapidJSONException)
        ELSE IF ar.itsNextName = NoName \/ ItName(it) = ar.itsNextName
             THEN Returned(cleared, 0)
        ELSE IF ItSearch(it, ar.itsNextName) = 0
             THEN Threw(ar, NVPNotFound(ar.itsNextName))
        ELSE Returned([cleared EXCEPT !.itsIteratorStack =
                         SetTop(@, [it EXCEPT !.itsIndex =
                                        ItSearch(it, ar.itsNextName)])], 0)

Advance(stack) ==
    IF Len(stack) = 0 THEN stack
    ELSE [stack EXCEPT ![Len(stack)].itsIndex = @ + 1]

(* startNode(): search, then descend into the value, which MemberBegin()   *)
(* asserts to be an object.                                                *)
InStartNode(ar) ==
    LET s == search(ar)
        v == ItValue(Top(s.ar.itsIteratorStack))
    IN  IF ~s.ok THEN s
        ELSE IF v.kind # "obj" THEN Threw(s.ar, RapidJSONException)
        ELSE Returned([s.ar EXCEPT !.itsIteratorStack =
                                       Append(@, Iterator(v.m))], 0)

(* finishNode(): leave the object and step past it in the enclosing one. *)
InFinishNode(ar) ==
    Returned([ar EXCEPT !.itsIteratorStack = Advance(Pop(@))], 0)

(* Fault: a name that is not found is skipped and val keeps its value. *)
loadValueOptional(ar, val) ==
    LET s == search(ar)
        v == ItValue(Top(s.ar.itsIteratorStack))
    IN  IF ~s.ok THEN Returned([ar EXCEPT !.itsNextName = NoName], val)
        ELSE IF v.kind # "int" THEN Threw(s.ar, RapidJSONException)
        ELSE Returned([s.ar EXCEPT !.itsIteratorStack = Advance(@)], v.i)

(* loadValue(int & val): search, then val = GetInt(), which asserts an     *)
(* integer.  The result carries the new val.                               *)
loadValue(ar, val) ==
    LET s == search(ar)
        v == ItValue(Top(s.ar.itsIteratorStack))
    IN  IF ~s.ok THEN s
        ELSE IF v.kind # "int" THEN Threw(s.ar, RapidJSONException)
        ELSE Returned([s.ar EXCEPT !.itsIteratorStack = Advance(@)], v.i)

Uint8 == 256

(* loadValue(uint8_t & val): search, then val = static_cast<uint8_t>(      *)
(* GetUint()), which asserts an integer that is not negative.              *)
loadValueUint8(ar) ==
    LET s == search(ar)
        v == ItValue(Top(s.ar.itsIteratorStack))
    IN  IF ~s.ok THEN s
        ELSE IF v.kind # "int" THEN Threw(s.ar, RapidJSONException)
        ELSE IF v.i < 0 THEN Threw(s.ar, RapidJSONException)
        ELSE Returned([s.ar EXCEPT !.itsIteratorStack = Advance(@)], v.i % Uint8)

(* One call of the visit on an input archive, for the object v that is    *)
(* being populated.                                                        *)
Load(ar, v, c) ==
    LET named == [ar EXCEPT !.itsNextName = c.name]
    IN  CASE c.call = "startNode" -> InStartNode(named)
          [] c.call = "int" -> loadValue(named, v.f[c.name])
          [] c.call = "valid" -> loadValueUint8(named)
          [] c.call = "pointee" -> loadValue(named, v.f.p.f[c.name])
          [] c.call = "finishNode" -> InFinishNode(ar)

(* new Pair(): the object a loaded pointer owns before "data" is read. *)
ValueInitialised == Pair(0, 0)

(* Fault: loading a pointer leaves it null, whatever "valid" says. *)
StoredNull(v, c, i) ==
    CASE c.call = "int" -> [v EXCEPT !.f[c.name] = i]
      [] c.call = "valid" -> [v EXCEPT !.f.p = NoObject]
      [] c.call = "pointee" -> v
      [] OTHER -> v

(* The object being populated after a call of the visit loaded i: an int   *)
(* goes to its member; "valid" makes the pointer own a new object, or      *)
(* resets it to null; an int under "data" goes to the owned object.        *)
Stored(v, c, i) ==
    CASE c.call = "int" -> [v EXCEPT !.f[c.name] = i]
      [] c.call = "valid" -> [v EXCEPT !.f.p = IF i # 0 THEN ValueInitialised
                                               ELSE NoObject]
      [] c.call = "pointee" -> [v EXCEPT !.f.p.f[c.name] = i]
      [] OTHER -> v

(***************************************************************************)
(* deserialize<T>(text) run to its end with nothing else running, on a     *)
(* default-constructed value whose int members are 0: what it returns, or  *)
(* the exception that leaves it.                                           *)
(***************************************************************************)
RECURSIVE LoadFrom(_, _, _)
LoadFrom(ar, v, i) ==
    LET calls == VisitObject(LoadName, v)
        r == Load(ar, v, calls[i])
    IN  IF i > Len(calls) THEN [ok |-> TRUE, v |-> v, err |-> NoError]
        ELSE IF ~r.ok THEN [ok |-> FALSE, v |-> v, err |-> r.err]
        ELSE LoadFrom(r.ar, Stored(v, calls[i], r.i), i + 1)

(***************************************************************************)
(* The program state.  Each thread runs one call at a time; the locals of  *)
(* a call live in the calling thread's frame.                              *)
(*   pc       where the thread is: "idle", or the line of cereal.hpp it is *)
(*            about to execute (s43..s48 in serialize, d54..d60 in         *)
(*            deserialize; an x marks a destructor run while unwinding)    *)
(*   arg      the arguments of the call: the caller's object `value`       *)
(*            (serialize, by reference) or T and `serialized` (deserialize)*)
(*   k        the position of the running visit in VisitObject(name, v)    *)
(*   stream   the std::stringstream local (`serialized` / `stream`)        *)
(*   archive  the archive local                                            *)
(*   value    the local `T value` of deserialize                           *)
(*   thrown   the exception in flight                                      *)
(*   ret      what the last call handed to its caller                      *)
(***************************************************************************)
VARIABLES pc, arg, k, stream, archive, value, thrown, ret

vars == <<pc, arg, k, stream, archive, value, thrown, ret>>

Threads == {"t1", "t2"}

(* Fault: the stream is a static, one for all threads. *)
StreamStatic(t) == "t1"

(* Fault: the archive is a static, one for all threads. *)
ArchiveStatic(t) == "t1"

(* The frame slot that holds a thread's stream, and its archive. *)
StreamOf(t) == t
ArchiveOf(t) == t

NoArg == [op |-> "none", value |-> NoObject, T |-> "none", serialized |-> <<>>]
NoReturn == [kind |-> "none", str |-> <<>>, object |-> NoObject, err |-> NoError]
ReturnString(text) == [NoReturn EXCEPT !.kind = "string", !.str = text]
ReturnObject(v) == [NoReturn EXCEPT !.kind = "object", !.object = v]

(* Fault: the exception is caught and an empty string is returned. *)
PropagateCaught(err) == [NoReturn EXCEPT !.kind = "string"]

Propagate(err) == [NoReturn EXCEPT !.kind = "error", !.err = err]

VisitorFailure == "exception thrown by the save function of T"

(***************************************************************************)
(* Control flow: the statement after l when l completes, and the first     *)
(* destructor run when l throws.  In serialize the inner block ends at     *)
(* line 47, where `archive` goes out of scope, before line 48 reads the    *)
(* stream; in deserialize it ends at line 59, before line 60 returns.      *)
(* Unwinding destroys the locals constructed so far, last first.           *)
(***************************************************************************)
(* Fault: serialize without the inner block, so that the archive is still  *)
(* in scope when line 48 reads the stream.                                 *)
AfterNoBlock(l) == CASE l = "s43" -> "s45"
                     [] l = "s45" -> "s46"
                     [] l = "s46" -> "s48"
                     [] l = "s47x" -> "s49x"
                     [] l = "d54" -> "d55"
                     [] l = "d55" -> "d57"
                     [] l = "d57" -> "d58"
                     [] l = "d58" -> "d59"
                     [] l = "d59" -> "d60"
                     [] l = "d59x" -> "d61x"
                     [] OTHER -> "idle"

(* Fault: lines 55 and 57 the other way round, the input archive is opened *)
(* before `value` is constructed.                                          *)
AfterValueLate(l) == CASE l = "s43" -> "s45"
                       [] l = "s45" -> "s46"
                       [] l = "s46" -> "s47"
                       [] l = "s47" -> "s48"
                       [] l = "s47x" -> "s49x"
                       [] l = "d54" -> "d57"
                       [] l = "d57" -> "d55"
                       [] l = "d55" -> "d58"
                       [] l = "d58" -> "d59"
                       [] l = "d59" -> "d60"
                       [] l = "d59x" -> "d61x"
                       [] OTHER -> "idle"

(* Fault: deserialize without the inner block, the input archive is kept   *)
(* when line 60 returns.                                                   *)
AfterArchiveKept(l) == CASE l = "s43" -> "s45"
                         [] l = "s45" -> "s46"
                         [] l = "s46" -> "s47"
                         [] l = "s47" -> "s48"
                         [] l = "s47x" -> "s49x"
                         [] l = "d54" -> "d55"
                         [] l = "d55" -> "d57"
                         [] l = "d57" -> "d58"
                         [] l = "d58" -> "d60"
                         [] l = "d59x" -> "d61x"
                         [] OTHER -> "idle"

After(l) == CASE l = "s43" -> "s45"
              [] l = "s45" -> "s46"
              [] l = "s46" -> "s47"
              [] l = "s47" -> "s48"
              [] l = "s47x" -> "s49x"
              [] l = "d54" -> "d55"
              [] l = "d55" -> "d57"
              [] l = "d57" -> "d58"
              [] l = "d58" -> "d59"
              [] l = "d59" -> "d60"
              [] l = "d59x" -> "d61x"
              [] OTHER -> "idle"

(* Fault: an exception of the visit is caught and serialize carries on. *)
UnwindSwallowed(l) == CASE l = "s46" -> "s47"
                        [] l = "d57" -> "d61x"
                        [] l = "d58" -> "d59x"

(* Fault: the archives are not scoped, unwinding passes them by. *)
UnwindLeaking(l) == CASE l = "s46" -> "s49x"
                      [] l = "d57" -> "d61x"
                      [] l = "d58" -> "d61x"

Unwind(l) == CASE l = "s46" -> "s47x"
               [] l = "d57" -> "d61x"
               [] l = "d58" -> "d59x"

(***************************************************************************)
(* `T value;` default-initialises: int members without an initialiser are  *)
(* indeterminate, members with one hold it.  Either way every member holds *)
(* some int that did not come from the text.  A std::unique_ptr member is  *)
(* null.                                                                   *)
(***************************************************************************)
Indeterminate == {0, -1}

DefaultConstructed(T, junk) ==
    IF T = "Owner" THEN Owner(NoObject)
    ELSE [type |-> T, f |-> [n \in Range(Fields(T)) |-> junk]]

DeserializeAlone(T, text) ==
    LET a == JSONInputArchive("stream", text)
        r == LoadFrom(a.ar, DefaultConstructed(T, 0), 1)
    IN  IF ~a.ok THEN Propagate(a.err)
        ELSE IF r.ok THEN ReturnObject(r.v)
        ELSE Propagate(r.err)

(***************************************************************************)
(* Texts a caller may hand to deserialize: a string some serialize call    *)
(* returned, such a string cut short, or a text of another producer.       *)
(***************************************************************************)
Truncated(text) == IF Len(text) = 0 THEN text ELSE SubSeq(text, 1, Len(text) - 1)

Field(name, tokens) == <<Str(name), Colon>> \o tokens

ForeignTexts ==
    { <<>>,
      <<Digit(3)>>,
      <<LBrace>> \o Field("cereal", <<Digit(3)>>) \o <<RBrace>>,
      <<LBrace>> \o Field("value0",
           <<LBrace>> \o Field("a", <<Digit(3)>>) \o <<Comma>>
                      \o Field("b", <<Digit(5)>>) \o <<RBrace>>) \o <<RBrace>>,
      <<LBrace>> \o Field("cereal",
           <<LBrace>> \o Field("b", <<Digit(5)>>) \o <<Comma>>
                      \o Field("a", <<Digit(3)>>) \o <<RBrace>>) \o <<RBrace>>,
      <<LBrace>> \o Field("cereal",
           <<LBrace>> \o Field("a", <<Digit(3)>>) \o <<Comma>>
                      \o Field("b", <<Str("5")>>) \o <<RBrace>>) \o <<RBrace>>,
      <<LBrace>> \o Field("cereal",
           <<LBrace>> \o Field("a", <<Digit(0), Digit(3)>>) \o <<RBrace>>)
                 \o <<RBrace>>,
      <<LBrace>> \o Field("version", <<Digit(1)>>) \o <<Comma>>
                 \o Field("cereal",
           <<LBrace>> \o Field("a", <<Digit(3)>>) \o <<RBrace>>)
                 \o <<RBrace>> }

Held == {ret[u].str : u \in {u \in Threads : ret[u].kind = "string"}}

Offered == Held \cup {Truncated(text) : text \in Held} \cup ForeignTexts

MayDeserialize(t) == t = "t1"

Init ==
    /\ pc = [t \in Threads |-> "idle"]
    /\ arg = [t \in Threads |-> NoArg]
    /\ k = [t \in Threads |-> 0]
    /\ stream = [t \in Threads |-> NoStream]
    /\ archive = [t \in Threads |-> NoArchive]
    /\ value = [t \in Threads |-> NoObject]
    /\ thrown = [t \in Threads |-> NoError]
    /\ ret = [t \in Threads |-> NoReturn]

(* The caller calls serialize(v) on an object it holds. *)
CallSerialize(t, v) ==
    /\ pc[t] = "idle"
    /\ arg' = [arg EXCEPT ![t] = [NoArg EXCEPT !.op = "serialize", !.value = v,
                                               !.T = v.type]]
    /\ ret' = [ret EXCEPT ![t] = NoReturn]
    /\ pc' = [pc EXCEPT ![t] = "s43"]
    /\ UNCHANGED <<k, stream, archive, value, thrown>>

(* Between calls the caller changes the object it had passed to serialize, *)
(* or destroys it (NoObject); the finished call is no longer on record.    *)
Modify(t, w) ==
    /\ pc[t] = "idle"
    /\ arg[t].op = "serialize"
    /\ w # arg[t].value
    /\ w.type \in {arg[t].value.type, "none"}
    /\ arg' = [arg EXCEPT ![t] = [NoArg EXCEPT !.value = w]]
    /\ UNCHANGED <<pc, k, stream, archive, value, thrown, ret>>

(* The caller calls deserialize<T>(text). *)
CallDeserialize(t, T, text) ==
    /\ pc[t] = "idle"
    /\ MayDeserialize(t)
    /\ arg' = [arg EXCEPT ![t] = [NoArg EXCEPT !.op = "deserialize", !.T = T,
                                               !.serialized = text]]
    /\ ret' = [ret EXCEPT ![t] = NoReturn]
    /\ pc' = [pc EXCEPT ![t] = "d54"]
    /\ UNCHANGED <<k, stream, archive, value, thrown>>

(* What a step of thread t puts to the stream its archive is bound to. *)
Put(ar, out) ==
    IF ar.stream \in DOMAIN stream
    THEN [stream EXCEPT ![ar.stream].str = @ \o out]
    ELSE stream

(* 43: std::stringstream serialized; *)
S43(t) ==
    /\ pc[t] = "s43"
    /\ stream' = [stream EXCEPT ![StreamOf(t)] = stringstream(<<>>)]
    /\ pc' = [pc EXCEPT ![t] = After("s43")]
    /\ UNCHANGED <<arg, k, archive, value, thrown, ret>>

(* 45: ::cereal::JSONOutputArchive archive(serialized, NoIndent()); *)
S45(t) ==
    /\ pc[t] = "s45"
    /\ archive' = [archive EXCEPT ![ArchiveOf(t)] = JSONOutputArchive(StreamOf(t))]
    /\ k' = [k EXCEPT ![t] = 1]
    /\ pc' = [pc EXCEPT ![t] = After("s45")]
    /\ UNCHANGED <<arg, stream, value, thrown, ret>>

(* 46: archive(::cereal::make_nvp("cereal", value)); one call of the visit *)
(* per step.  The save function of T may throw.                            *)
S46(t) ==
    /\ pc[t] = "s46"
    /\ LET v == arg[t].value
           calls == VisitObject(TopLevelName, v)
           c == calls[k[t]]
           w == Save([ar |-> archive[ArchiveOf(t)], out |-> <<>>], v, c)
       IN  IF SaveThrows(v, c.name)
           THEN /\ thrown' = [thrown EXCEPT ![t] = VisitorFailure]
                /\ pc' = [pc EXCEPT ![t] = Unwind("s46")]
                /\ k' = [k EXCEPT ![t] = 0]
                /\ UNCHANGED <<archive, stream, arg>>
           ELSE /\ archive' = [archive EXCEPT ![ArchiveOf(t)] = w.ar]
                /\ stream' = Put(w.ar, w.out)
                /\ arg' = [arg EXCEPT ![t].value = Visited(v, c)]
                /\ IF k[t] < Len(calls)
                   THEN /\ k' = [k EXCEPT ![t] = @ + 1]
                        /\ pc' = pc
                   ELSE /\ k' = [k EXCEPT ![t] = 0]
                        /\ pc' = [pc EXCEPT ![t] = After("s46")]
                /\ thrown' = thrown
    /\ UNCHANGED <<value, ret>>

(* 47: the block ends, ~JSONOutputArchive() runs; also while unwinding. *)
DestroyOutputArchive(t, l) ==
    /\ pc[t] = l
    /\ LET w == OutputArchiveDtor([ar |-> archive[ArchiveOf(t)], out |-> <<>>])
       IN  /\ stream' = Put(w.ar, w.out)
           /\ archive' = [archive EXCEPT ![ArchiveOf(t)] = NoArchive]
    /\ pc' = [pc EXCEPT ![t] = After(l)]
    /\ UNCHANGED <<arg, k, value, thrown, ret>>

S47(t) == DestroyOutputArchive(t, "s47")

S47x(t) == DestroyOutputArchive(t, "s47x")

(* 48: return serialized.str(); then the stream is destroyed. *)
S48(t) ==
    /\ pc[t] = "s48"
    /\ ret' = [ret EXCEPT ![t] = ReturnString(stream[StreamOf(t)].str)]
    /\ stream' = [stream EXCEPT ![StreamOf(t)] = NoStream]
    /\ pc' = [pc EXCEPT ![t] = After("s48")]
    /\ UNCHANGED <<arg, k, archive, value, thrown>>

(* Unwinding leaves serialize: the stream is destroyed, the exception      *)
(* reaches the caller.                                                     *)
S49x(t) ==
    /\ pc[t] = "s49x"
    /\ stream' = [stream EXCEPT ![StreamOf(t)] = NoStream]
    /\ ret' = [ret EXCEPT ![t] = Propagate(thrown[t])]
    /\ thrown' = [thrown EXCEPT ![t] = NoError]
    /\ pc' = [pc EXCEPT ![t] = After("s49x")]
    /\ UNCHANGED <<arg, k, archive, value>>

(* Fault: the stream takes the string over and leaves it empty. *)
MovedFrom(text) == <<>>

(* The string after the stream was constructed from it: the constructor    *)
(* receives it as const std::string & and copies it.                       *)
CopiedFrom(text) == text

(* 54: std::stringstream stream(serialized); *)
D54(t) ==
    /\ pc[t] = "d54"
    /\ stream' = [stream EXCEPT ![StreamOf(t)] = stringstream(arg[t].serialized)]
    /\ arg' = [arg EXCEPT ![t].serialized = CopiedFrom(@)]
    /\ pc' = [pc EXCEPT ![t] = After("d54")]
    /\ UNCHANGED <<k, archive, value, thrown, ret>>

(* 55: T value; *)
D55(t) ==
    /\ pc[t] = "d55"
    /\ \E junk \in Indeterminate :
           value' = [value EXCEPT ![t] = DefaultConstructed(arg[t].T, junk)]
    /\ pc' = [pc EXCEPT ![t] = After("d55")]
    /\ UNCHANGED <<arg, k, stream, archive, thrown, ret>>

(* 57: ::cereal::JSONInputArchive archive(stream); the constructor parses  *)
(* the stream and may throw, and then no archive was constructed.          *)
D57(t) ==
    /\ pc[t] = "d57"
    /\ LET r == JSONInputArchive(StreamOf(t), stream[StreamOf(t)].str)
       IN  IF r.ok
           THEN /\ archive' = [archive EXCEPT ![ArchiveOf(t)] = r.ar]
                /\ k' = [k EXCEPT ![t] = 1]
                /\ pc' = [pc EXCEPT ![t] = After("d57")]
                /\ thrown' = thrown
           ELSE /\ thrown' = [thrown EXCEPT ![t] = r.err]
                /\ pc' = [pc EXCEPT ![t] = Unwind("d57")]
                /\ UNCHANGED <<archive, k>>
    /\ UNCHANGED <<arg, stream, value, ret>>

(* 58: archive(::cereal::make_nvp("cereal", value)); one call of the visit *)
(* per step, each loaded int stored into `value`.                          *)
D58(t) ==
    /\ pc[t] = "d58"
    /\ LET calls == VisitObject(LoadName, value[t])
           c == calls[k[t]]
           r == Load(archive[ArchiveOf(t)], value[t], c)
       IN  IF r.ok
           THEN /\ archive' = [archive EXCEPT ![ArchiveOf(t)] = r.ar]
                /\ value' = [value EXCEPT ![t] = Stored(value[t], c, r.i)]
                /\ IF k[t] < Len(calls)
                   THEN /\ k' = [k EXCEPT ![t] = @ + 1]
                        /\ pc' = pc
                   ELSE /\ k' = [k EXCEPT ![t] = 0]
                        /\ pc' = [pc EXCEPT ![t] = After("d58")]
                /\ thrown' = thrown
           ELSE /\ thrown' = [thrown EXCEPT ![t] = r.err]
                /\ pc' = [pc EXCEPT ![t] = Unwind("d58")]
                /\ k' = [k EXCEPT ![t] = 0]
                /\ UNCHANGED <<archive, value>>
    /\ UNCHANGED <<arg, stream, ret>>

(* 59: the block ends, ~JSONInputArchive() runs; also while unwinding. *)
DestroyInputArchive(t, l) ==
    /\ pc[t] = l
    /\ archive' = [archive EXCEPT ![ArchiveOf(t)] = NoArchive]
    /\ pc' = [pc EXCEPT ![t] = After(l)]
    /\ UNCHANGED <<arg, k, stream, value, thrown, ret>>

D59(t) == DestroyInputArchive(t, "d59")

D59x(t) == DestroyInputArchive(t, "d59x")

(* 60: return value; then `value` and `stream` are destroyed. *)
D60(t) ==
    /\ pc[t] = "d60"
    /\ ret' = [ret EXCEPT ![t] = ReturnObject(value[t])]
    /\ value' = [value EXCEPT ![t] = NoObject]
    /\ stream' = [stream EXCEPT ![StreamOf(t)] = NoStream]
    /\ pc' = [pc EXCEPT ![t] = After("d60")]
    /\ UNCHANGED <<arg, k, archive, thrown>>

(* Unwinding leaves deserialize: `value` and `stream` are destroyed, the   *)
(* exception reaches the caller.                                           *)
D61x(t) ==
    /\ pc[t] = "d61x"
    /\ value' = [value EXCEPT ![t] = NoObject]
    /\ stream' = [stream EXCEPT ![StreamOf(t)] = NoStream]
    /\ ret' = [ret EXCEPT ![t] = Propagate(thrown[t])]
    /\ thrown' = [thrown EXCEPT ![t] = NoError]
    /\ pc' = [pc EXCEPT ![t] = After("d61x")]
    /\ UNCHANGED <<arg, k, archive>>

Next ==
    \E t \in Threads :
        \/ \E v \in Values : CallSerialize(t, v)
        \/ \E w \in Values \cup {NoObject} : Modify(t, w)
        \/ \E T \in Types, text \in Offered : CallDeserialize(t, T, text)
        \/ S43(t) \/ S45(t) \/ S46(t) \/ S47(t) \/ S48(t)
        \/ S47x(t) \/ S49x(t)
        \/ D54(t) \/ D55(t) \/ D57(t) \/ D58(t) \/ D59(t) \/ D60(t)
        \/ D59x(t) \/ D61x(t)

Spec == Init /\ [][Next]_vars

(***************************************************************************)
(* Properties                                                              *)
(***************************************************************************)

(* Thread t is back in its caller after a call of op. *)
Done(t, op) == pc[t] = "idle" /\ arg[t].op = op /\ ret[t].kind # "none"

(* C1  Round trip: when one caller holds the string serialize returned for *)
(* its object v, and deserialize<T> for v's type T has been applied to     *)
(* that string, deserialize returned an object of type T whose every       *)
(* member equals v's.                                                      *)
C1_RoundTrip ==
    \A t, u \in Threads :
        ( /\ Done(u, "serialize") /\ ret[u].kind = "string"
          /\ Done(t, "deserialize")
          /\ arg[t].serialized = ret[u].str
          /\ arg[t].T = arg[u].T )
        => ret[t] = ReturnObject(arg[u].value)

C1_Witness ==
    \E t, u \in Threads :
        /\ Done(u, "serialize") /\ arg[u].value = Pair(-MaxInt, 0)
        /\ Done(t, "deserialize") /\ arg[t].T = "Pair"
        /\ arg[t].serialized = ret[u].str
        /\ ret[t] = ReturnObject(Pair(-MaxInt, 0))

(* C2  Flush before read: whenever serialize is about to read the stream   *)
(* (line 48), its output archive has been destroyed, the stream is alive   *)
(* and holds a complete document, closing braces included.                 *)
C2_FlushBeforeRead ==
    \A t \in Threads :
        pc[t] = "s48" =>
            /\ ~archive[t].alive
            /\ stream[t].alive
            /\ ParseStream(stream[t].str).kind = "obj"

C2_Witness ==
    \E t \in Threads :
        /\ pc[t] = "s48" /\ arg[t].value = Triple(3, 5, MaxInt * 10)
        /\ ~archive[t].alive
        /\ Len(stream[t].str) > 0 /\ Top(stream[t].str) = RBrace

(***************************************************************************)
(* What a text holds, read off its document without an archive.            *)
(***************************************************************************)
HasName(obj, name) == \E j \in 1..Len(obj.m) : obj.m[j][1] = name
HasInt(obj, name) ==
    \E j \in 1..Len(obj.m) : obj.m[j][1] = name /\ obj.m[j][2].kind = "int"

(* The objects the text holds under the top-level name. *)
Wrapped(text) ==
    LET doc == ParseStream(text)
    IN  {doc.m[j][2] : j \in {j \in 1..Len(doc.m) :
                                 /\ doc.m[j][1] = TopLevelName
                                 /\ doc.m[j][2].kind = "obj"}}

(* The text is exactly of T's shape: one top-level entry, named "cereal",  *)
(* an object whose entries are T's fields, each an integer, and no others. *)
ShapeMatches(text, T) ==
    LET doc == ParseStream(text)
    IN  /\ doc.kind = "obj" /\ Len(doc.m) = 1
        /\ Wrapped(text) # {}
        /\ \A c \in Wrapped(text) :
               /\ Len(c.m) = Len(Fields(T))
               /\ \A f \in Range(Fields(T)) : HasInt(c, f)

(* The text gives no object under "cereal" that has an integer for every   *)
(* field of T.                                                             *)
Lacking(text, T) ==
    \A c \in Wrapped(text) : \E f \in Range(Fields(T)) : ~HasInt(c, f)

(* Every member of object v is an integer the text gives for that field. *)
ReadFrom(text, v) ==
    \E c \in Wrapped(text) :
        \A f \in Range(Fields(v.type)) :
            \E j \in 1..Len(c.m) : c.m[j] = <<f, IntValue(v.f[f])>>

(* C3 as stated: deserialize<T> of a text whose top-level name or field    *)
(* shape is not T's ends in an error.                                      *)
C3_AsStated ==
    \A t \in Threads :
        (Done(t, "deserialize") /\ ~ShapeMatches(arg[t].serialized, arg[t].T))
        => ret[t].kind = "error"

(* C3  Failure isolation, amended: deserialize<T> ends in an error, and    *)
(* returns no object, on every text that is malformed, has no object under *)
(* the top-level name "cereal", or gives no integer there for some field   *)
(* of T; and an object it does return has every member read from the       *)
(* text.  (Entries T does not name are skipped; their presence is no       *)
(* error.)                                                                 *)
C3_FailureIsolation ==
    \A t \in Threads :
        Done(t, "deserialize") =>
            /\ ret[t].kind \in {"object", "error"}
            /\ Lacking(arg[t].serialized, arg[t].T)
               => (ret[t].kind = "error" /\ ret[t].object = NoObject)
            /\ ret[t].kind = "object"
               => /\ ret[t].object.type = arg[t].T
                  /\ ReadFrom(arg[t].serialized, ret[t].object)

C3_Witness ==
    \E t \in Threads :
        /\ Done(t, "deserialize") /\ arg[t].T = "Pair"
        /\ ParseStream(arg[t].serialized).kind = "obj"
        /\ HasName(ParseStream(arg[t].serialized), "value0")
        /\ ret[t].kind = "error"

(* Field f of T is absent from what the text holds under "cereal". *)
Missing(text, f) ==
    Wrapped(text) # {} /\ \A c \in Wrapped(text) : ~HasName(c, f)

(* The exception for a text without repeated keys that has an object under *)
(* "cereal": the first field of T, in declaration order, for which that    *)
(* object gives no integer decides it.                                     *)
ExpectedError(text, T) ==
    LET c == CHOOSE c \in Wrapped(text) : TRUE
        bad == {i \in 1..Len(Fields(T)) : ~HasInt(c, Fields(T)[i])}
        first == CHOOSE i \in bad : \A j \in bad : i <= j
    IN  IF HasName(c, Fields(T)[first]) THEN RapidJSONException
        ELSE NVPNotFound(Fields(T)[first])

(* C4  Missing field: deserialize<T> of a text that lacks a field of T     *)
(* returns no object; it throws, and which exception it throws is fixed by *)
(* T and the text alone, whatever the members of the default-constructed   *)
(* value were and whatever other calls ran.                                *)
C4_MissingField ==
    \A t \in Threads :
        ( /\ Done(t, "deserialize")
          /\ \E f \in Range(Fields(arg[t].T)) : Missing(arg[t].serialized, f) )
        => ret[t] = Propagate(ExpectedError(arg[t].serialized, arg[t].T))

C4_Witness ==
    \E t, u \in Threads :
        /\ Done(u, "serialize") /\ arg[u].value = Single(7)
        /\ Done(t, "deserialize") /\ arg[t].T = "Pair"
        /\ arg[t].serialized = ret[u].str
        /\ Missing(arg[t].serialized, "b")
        /\ ret[t] = Propagate(NVPNotFound("b"))

IsPrefix(p, q) == Len(p) <= Len(q) /\ SubSeq(q, 1, Len(p)) = p

(* Nothing of a call is left in thread t's frame. *)
FrameEmpty(t) ==
    /\ ~stream[t].alive /\ stream[t] = NoStream
    /\ ~archive[t].alive /\ archive[t] = NoArchive
    /\ value[t] = NoObject
    /\ thrown[t] = NoError

(* C5  Determinism across calls: two calls of serialize on equal objects   *)
(* hand their callers the same result, the same string token for token,    *)
(* whatever calls ran before, between and beside them; and when a call has *)
(* ended only what it handed to its caller is left of it.                  *)
C5_Deterministic ==
    \A t, u \in Threads :
        /\ (Done(t, "serialize") /\ Done(u, "serialize")
            /\ arg[t].value = arg[u].value) => ret[t] = ret[u]
        /\ pc[t] = "idle" => FrameEmpty(t)

C5_Witness ==
    \E t, u \in Threads :
        /\ t # u
        /\ Done(t, "serialize") /\ Done(u, "serialize")
        /\ arg[t].value = Pair(-MaxInt, 0) /\ arg[u].value = Pair(-MaxInt, 0)
        /\ ret[t].kind = "string" /\ ret[t].str = ret[u].str

(* C6  No mutation: no step of a serialize call, on the returning path or  *)
(* on the failing one, changes the object the caller passed.               *)
C6_NoMutation ==
    [][\A t \in Threads :
           (arg[t].op = "serialize" /\ pc[t] # "idle")
           => arg'[t].value = arg[t].value]_vars

C6_Witness ==
    \E t, u \in Threads :
        /\ Done(t, "serialize") /\ ret[t].kind = "string"
        /\ arg[t].value = Triple(3, 5, MaxInt * 10)
        /\ Done(u, "serialize") /\ ret[u].kind = "error"
        /\ arg[u].value = Guarded(3, 1)

(* The object's save function throws on some member. *)
Unserializable(v) == \E f \in Range(Fields(v.type)) : SaveThrows(v, f)

(* C7  Serialize failure: when the save function throws, the caller gets   *)
(* the exception and no string; on the way out the archive is destroyed    *)
(* first, its destructor closing the object that was open, and the stream  *)
(* with the partial text is destroyed after it.                            *)
C7_SerializeFailure ==
    \A t \in Threads :
        (arg[t].op = "serialize" /\ Unserializable(arg[t].value)) =>
            /\ pc[t] \notin {"s47", "s48"}
            /\ pc[t] = "s49x"
               => /\ ~archive[t].alive
                  /\ stream[t].alive
                  /\ Len(stream[t].str) > 0 /\ Top(stream[t].str) = RBrace
                  /\ ParseStream(stream[t].str).kind = "null"
            /\ pc[t] = "idle"
               => /\ ret[t] = Propagate(VisitorFailure)
                  /\ ~stream[t].alive /\ ~archive[t].alive

C7_Witness ==
    \E t \in Threads :
        /\ Done(t, "serialize") /\ arg[t].value = Guarded(3, 1)
        /\ ret[t].kind = "error" /\ ret[t].str = <<>>

InSerialize == {"s43", "s45", "s46", "s47", "s48", "s47x", "s49x"}
InDeserialize == {"d54", "d55", "d57", "d58", "d59", "d60", "d59x", "d61x"}

(* C8  Scoped lifetime: a thread that is in no call holds no stream, no    *)
(* archive and no value, after a return and after a failure alike; an      *)
(* archive is alive only inside the block of the call that made it, bound  *)
(* to that call's stream, which is alive as long as the archive is.        *)
C8_ScopedLifetime ==
    \A t \in Threads :
        /\ pc[t] = "idle"
           => (~stream[t].alive /\ ~archive[t].alive /\ value[t] = NoObject)
        /\ stream[t].alive => pc[t] \in (InSerialize \cup InDeserialize) \ {"s43", "d54"}
        /\ archive[t].alive
           => /\ pc[t] \in {"s46", "s47", "s47x", "d58", "d59", "d59x"}
              /\ archive[t].stream = t
              /\ stream[t].alive
              /\ archive[t].dir = (IF pc[t] \in InSerialize THEN "out" ELSE "in")

C8_Witness ==
    \E t \in Threads :
        /\ Done(t, "deserialize") /\ ret[t].kind = "error"
        /\ ret[t].err = NVPNotFound("c")
        /\ ~stream[t].alive /\ ~archive[t].alive

(* C9  Concurrent encode: with two threads in serialize at once, each      *)
(* returns what serialize returns for its object when it runs alone, and   *)
(* each archive writes to the stream of its own thread only.               *)
C9_ConcurrentEncode ==
    \A t \in Threads :
        /\ Done(t, "serialize")
           => ret[t] = (IF SerializeAlone(arg[t].value).threw
                        THEN Propagate(VisitorFailure)
                        ELSE ReturnString(SerializeAlone(arg[t].value).str))
        /\ pc[t] \in {"s46", "s47", "s47x"}
           => (archive[t].alive /\ archive[t].stream = t /\ stream[t].alive)
        /\ pc[t] \in {"s45", "s46", "s47", "s47x"}
           => IsPrefix(stream[t].str, SerializeAlone(arg[t].value).str)
        /\ pc[t] \in {"s48", "s49x"}
           => stream[t].str = SerializeAlone(arg[t].value).str

C9_Witness ==
    /\ Done("t1", "serialize") /\ arg["t1"].value = Pair(3, 5)
    /\ ret["t1"].kind = "string"
    /\ pc["t2"] = "s47" /\ arg["t2"].value = Pair(5, 3)
    /\ stream["t2"].str # <<>>

(* The text of a Pair with a = 3, b = 5. *)
Pair35Text ==
    <<LBrace>> \o Field("cereal",
        <<LBrace>> \o Field("a", <<Digit(3)>>) \o <<Comma>>
                   \o Field("b", <<Digit(5)>>) \o <<RBrace>>) \o <<RBrace>>

(* The int members of v as entries of a document, in declaration order. *)
IntEntries(v) ==
    [i \in 1..Len(Fields(v.type)) |->
        <<Fields(v.type)[i], IntValue(v.f[Fields(v.type)[i]])>>]

(* What a document holds for a pointer: the flag, and the owned object. *)
PointerEntries(ptr) ==
    IF Null(ptr) THEN << <<"valid", IntValue(0)>> >>
    ELSE << <<"valid", IntValue(1)>>, <<"data", ObjectValue(IntEntries(ptr))>> >>

(* What a document holds for the members of v. *)
Entries(v) ==
    IF v.type = "Owner"
    THEN << <<"p", ObjectValue(<< <<"ptr_wrapper",
                                   ObjectValue(PointerEntries(v.f.p))>> >>)>> >>
    ELSE IntEntries(v)

(* C10  Encoded shape: the string serialize returns is one object with one *)
(* entry, named "cereal", whose value is an object with exactly the fields *)
(* of the value in declaration order, each with its integer; for a Pair    *)
(* with a = 3, b = 5 it is {"cereal":{"a":3,"b":5}}, and deserialize<Pair> *)
(* of that text returns a Pair with a = 3, b = 5.                          *)
C10_EncodedShape ==
    \A t \in Threads :
        /\ (Done(t, "serialize") /\ ret[t].kind = "string")
           => LET v == arg[t].value
                  doc == ParseStream(ret[t].str)
              IN  /\ doc.kind = "obj" /\ Len(doc.m) = 1
                  /\ doc.m[1][1] = "cereal"
                  /\ doc.m[1][2] = ObjectValue(Entries(v))
                  /\ v = Pair(3, 5) => ret[t].str = Pair35Text
        /\ (Done(t, "deserialize") /\ arg[t].T = "Pair"
            /\ arg[t].serialized = Pair35Text)
           => ret[t] = ReturnObject(Pair(3, 5))

C10_Witness ==
    \E t, u \in Threads :
        /\ Done(u, "serialize") /\ arg[u].value = Pair(3, 5)
        /\ ret[u].str = Pair35Text
        /\ Done(t, "deserialize") /\ arg[t].T = "Pair"
        /\ arg[t].serialized = ret[u].str
        /\ ret[t].kind = "object"
        /\ ret[t].object.f.a = 3 /\ ret[t].object.f.b = 5

(* C11  Nested owned value: when a caller holds the string serialize       *)
(* returned for an Owner whose pointer is not null, and deserialize<Owner> *)
(* has been applied to that string, it returned an Owner whose pointer is  *)
(* not null and owns an object equal to the one the caller's Owner owns.   *)
C11_OwnedValue ==
    \A t, u \in Threads :
        ( /\ Done(u, "serialize") /\ ret[u].kind = "string"
          /\ arg[u].value.type = "Owner" /\ ~Null(arg[u].value.f.p)
          /\ Done(t, "deserialize") /\ arg[t].T = "Owner"
          /\ arg[t].serialized = ret[u].str )
        => /\ ret[t].kind = "object"
           /\ ret[t].object.type = "Owner"
           /\ ~Null(ret[t].object.f.p)
           /\ ret[t].object.f.p = arg[u].value.f.p

C11_Witness ==
    \E t, u \in Threads :
        /\ Done(u, "serialize") /\ arg[u].value = Owner(Pair(5, 3))
        /\ Done(t, "deserialize") /\ arg[t].T = "Owner"
        /\ arg[t].serialized = ret[u].str
        /\ ret[t].kind = "object"
        /\ ret[t].object.f.p.type = "Pair"
        /\ ret[t].object.f.p.f.a = 5 /\ ret[t].object.f.p.f.b = 3

(* Thread t is in deserialize on a string that serialize returned to u. *)
DecodesStringOf(t, u) ==
    /\ Done(u, "serialize") /\ ret[u].kind = "string"
    /\ arg[t].op = "deserialize" /\ arg[t].serialized = ret[u].str

(* C12  Same wrapper name: serialize and deserialize give the archive the  *)
(* same top-level name, "cereal"; a string serialize returned has an entry *)
(* of that name, and deserialize<T> of it, for any T, is past the          *)
(* top-level name when it fails: the input archive is constructed, it has *)
(* entered the top-level node when the visit throws, and the exception is  *)
(* not the one for that name.                                              *)
C12_SameName ==
    /\ TopLevelName = LoadName /\ LoadName = "cereal"
    /\ \A t, u \in Threads :
           DecodesStringOf(t, u) =>
               /\ HasName(ParseStream(ret[u].str), LoadName)
               /\ pc[t] = "d57" => ParseStream(stream[t].str).kind = "obj"
               /\ pc[t] = "d61x" => thrown[t] # NVPNotFound(LoadName)
               /\ pc[t] = "d59x"
                  => /\ Len(archive[t].itsIteratorStack) >= 2
                     /\ thrown[t] # NVPNotFound(LoadName)
               /\ Done(t, "deserialize") => ret[t].err # NVPNotFound(LoadName)

C12_Witness ==
    \E t, u \in Threads :
        /\ DecodesStringOf(t, u) /\ arg[u].value = Single(7)
        /\ arg[t].T = "Triple"
        /\ pc[t] = "d59x" /\ thrown[t] = NVPNotFound("b")
        /\ Len(archive[t].itsIteratorStack) = 2

(* C13  Single-use archive: an archive is constructed by line 45 as an     *)
(* output archive or by line 57 as an input archive, on the stream of its  *)
(* own call; while it is alive its direction, its stream and the call it   *)
(* serves stay the same; it runs one visit, which only moves forward, and  *)
(* once that visit has ended the next step of its thread destroys it.      *)
C13_SingleUse ==
    [][\A a \in Threads :
           /\ (~archive[a].alive /\ archive'[a].alive)
              => /\ pc[a] \in {"s45", "d57"}
                 /\ archive'[a].dir = (IF pc[a] = "s45" THEN "out" ELSE "in")
                 /\ archive'[a].stream = a
                 /\ k'[a] = 1
           /\ (archive[a].alive /\ archive'[a].alive)
              => /\ archive'[a].dir = archive[a].dir
                 /\ archive'[a].stream = archive[a].stream
                 /\ arg'[a] = arg[a]
                 /\ k'[a] \in {k[a], k[a] + 1, 0}
           /\ archive[a].alive
              => \/ k[a] >= 1 /\ pc[a] \in {"s46", "d58"}
                 \/ k[a] = 0 /\ pc[a] \in {"s47", "s47x", "d59", "d59x"}
           /\ (archive[a].alive /\ k[a] = 0 /\ pc'[a] # pc[a])
              => ~archive'[a].alive]_vars

C13_Witness ==
    \E t, u \in Threads :
        /\ pc[t] = "d59" /\ archive[t].alive /\ archive[t].dir = "in"
        /\ k[t] = 0 /\ value[t] = Pair(5, 3)
        /\ pc[u] = "s46" /\ archive[u].alive /\ archive[u].dir = "out"
        /\ k[u] = 3 /\ arg[u].value = Triple(3, 5, MaxInt * 10)

Unwinding == {"s47x", "s49x", "d59x", "d61x"}

(* The result holds nothing but the exception. *)
FailureOnly(r) ==
    r.kind = "error" /\ r.err # NoError /\ r.str = <<>> /\ r.object = NoObject

(* C14  No suppression, no retry: a call that has ended handed its caller  *)
(* either a complete result (serialize: a string that is a whole document; *)
(* deserialize: an object of type T with every member read from the text)  *)
(* or an exception and nothing else; an exception in flight is met only on *)
(* the unwinding path, with no visit running and nothing returned yet, and *)
(* each step of its thread either goes on unwinding with the same          *)
(* exception or hands exactly that exception to the caller; a throwing     *)
(* save function always ends the call that way.                            *)
C14_NoSuppression ==
    [][\A t \in Threads :
           /\ (thrown[t] # NoError) <=> (pc[t] \in Unwinding)
           /\ thrown[t] # NoError
              => /\ k[t] = 0 /\ ret[t] = NoReturn
                 /\ \/ thrown'[t] = thrown[t] /\ pc'[t] \in Unwinding
                       /\ k'[t] = 0 /\ ret'[t] = NoReturn
                    \/ pc'[t] = "idle" /\ FailureOnly(ret'[t])
                       /\ ret'[t].err = thrown[t]
           /\ Done(t, "serialize")
              => \/ /\ ret[t].kind = "string" /\ ret[t].err = NoError
                    /\ ret[t].object = NoObject
                    /\ ParseStream(ret[t].str).kind = "obj"
                    /\ ~Unserializable(arg[t].value)
                 \/ /\ FailureOnly(ret[t]) /\ ret[t].err = VisitorFailure
                    /\ Unserializable(arg[t].value)
           /\ Done(t, "deserialize")
              => \/ /\ ret[t].kind = "object" /\ ret[t].err = NoError
                    /\ ret[t].str = <<>>
                    /\ ret[t].object.type = arg[t].T
                    /\ ReadFrom(arg[t].serialized, ret[t].object)
                 \/ FailureOnly(ret[t])]_vars

C14_Witness ==
    \E t, u \in Threads :
        /\ Done(t, "deserialize") /\ arg[t].T = "Owner"
        /\ FailureOnly(ret[t]) /\ ret[t].err = RapidJSONException
        /\ Done(u, "serialize") /\ arg[u].value = Guarded(3, 1)
        /\ FailureOnly(ret[u]) /\ ret[u].err = VisitorFailure

(* C15  No type tag: an object deserialize<U> returns is of type U, the    *)
(* type argument; no token of a string serialize returns is the name of a  *)
(* type; and deserialize<U> of the string serialize returned for an object *)
(* v of another type with the member names of U, in the same order,        *)
(* returns a U whose members are v's.                                      *)
C15_NoTypeTag ==
    \A t, u \in Threads :
        /\ (Done(t, "deserialize") /\ ret[t].kind = "object")
           => ret[t].object.type = arg[t].T
        /\ (Done(u, "serialize") /\ ret[u].kind = "string")
           => \A i \in 1..Len(ret[u].str) : \A T \in Types : ret[u].str[i] # Str(T)
        /\ ( /\ DecodesStringOf(t, u) /\ Done(t, "deserialize")
             /\ arg[t].T # arg[u].T
             /\ Fields(arg[t].T) = Fields(arg[u].T) )
           => /\ ret[t].kind = "object"
              /\ ret[t].object.type = arg[t].T
              /\ ret[t].object.f = arg[u].value.f

C15_Witness ==
    \E t, u \in Threads :
        /\ Done(u, "serialize") /\ arg[u].value = Pair(3, 5)
        /\ Done(t, "deserialize") /\ arg[t].T = "Point"
        /\ arg[t].serialized = ret[u].str
        /\ ret[t] = ReturnObject(Point(3, 5))

(* C16  Independent Encoded Form: a string serialize returned stays what   *)
(* it is while its holder is between calls, whatever the holder does to    *)
(* the object it was made from (changes it, destroys it) and whatever the  *)
(* other thread does, decoding that string included; no step of a          *)
(* deserialize call changes the string it was given; and what              *)
(* deserialize<T> hands back is fixed by T and the string alone, so that   *)
(* decoding one string twice gives equal values.                           *)
C16_IndependentForm ==
    [][\A t \in Threads :
           /\ (pc[t] = "idle" /\ ret[t].kind = "string" /\ pc'[t] = "idle")
              => ret'[t] = ret[t]
           /\ (arg[t].op = "deserialize" /\ pc[t] # "idle")
              => arg'[t].serialized = arg[t].serialized
           /\ (pc[t] \in {"d60", "d61x"} /\ pc'[t] = "idle")
              => ret'[t] = DeserializeAlone(arg[t].T, arg[t].serialized)]_vars

C16_Witness ==
    \E t, u \in Threads :
        /\ pc[u] = "idle" /\ arg[u].op = "none" /\ arg[u].value = NoObject
        /\ ret[u].kind = "string" /\ ret[u].str = Pair35Text
        /\ Done(t, "deserialize") /\ arg[t].T = "Pair"
        /\ arg[t].serialized = ret[u].str
        /\ ret[t] = ReturnObject(Pair(3, 5))

(* C17  Reader closed before return: when deserialize is about to open the *)
(* input archive (line 57) the value is there, default-constructed, and    *)
(* the stream is alive; an input archive is alive only inside the block,   *)
(* with the value and the stream it reads from alive; when deserialize is  *)
(* about to return the value (line 60) the archive has been destroyed and  *)
(* the stream is still alive; after the return both are gone.              *)
C17_ReaderClosed ==
    \A t \in Threads :
        /\ pc[t] = "d57"
           => /\ value[t].type = arg[t].T
              /\ \E junk \in Indeterminate :
                     value[t] = DefaultConstructed(arg[t].T, junk)
              /\ ~archive[t].alive /\ stream[t].alive
        /\ (archive[t].alive /\ archive[t].dir = "in")
           => /\ pc[t] \in {"d58", "d59", "d59x"}
              /\ value[t].type = arg[t].T
              /\ archive[t].stream = t /\ stream[t].alive
        /\ pc[t] = "d60"
           => /\ ~archive[t].alive /\ stream[t].alive
              /\ value[t].type = arg[t].T /\ thrown[t] = NoError
        /\ (Done(t, "deserialize") /\ ret[t].kind = "object")
           => (~archive[t].alive /\ ~stream[t].alive /\ value[t] = NoObject)

C17_Witness ==
    \E t \in Threads :
        /\ pc[t] = "d60" /\ arg[t].T = "Owner"
        /\ value[t].type = "Owner" /\ value[t] = Owner(Pair(5, 3))
        /\ ~archive[t].alive /\ stream[t].alive

=============================================================================
